---- MODULE Spec2Model ----
(***************************************************************************)
(* path-router-express: the request pipeline that createRouter registers  *)
(* for every route (src/src/index.ts).  One request is followed from the  *)
(* listener call to its response: the resolvers are launched, Promise.all *)
(* joins them, the action or callback is dispatched, its result is        *)
(* materialized on the response, and the trailing catch turns a rejection *)
(* into an error response.                                                *)
(*                                                                         *)
(* index.ts holds two near-identical createRouter implementations (lines  *)
(* 92-203 and 294-409).  They differ in three places: the guard on        *)
(* route.resolves, the content-type check of the content branch, and the  *)
(* arguments given to onError.  `variant` says which one is running.      *)
(***************************************************************************)
EXTENDS Integers, Sequences, FiniteSets, TLC

VARIABLES
    variant,      \* 1: createRouter of lines 92-203, 2: createRouter of lines 294-409
    debug,        \* params.debug
    onError,      \* params.onError: Absent or "mapper"
    controller,   \* params.controller: Absent or "controller"
    route,        \* the route descriptor: resolves (present?, how many), action, callback
    phase,        \* where the request is in the pipeline
    now,          \* the clock Date.now() reads
    time,         \* const time = Date.now() of the listener
    promises,     \* promises[i]: the promise resolver i returned
    settleOrder,  \* the resolvers whose promise settled, in the order they settled
    invoked,      \* invoked[i]: how often resolver i was called
    results,      \* the values array Promise.all builds (slot 1 is the request)
    invocations,  \* the argument lists the action/callback was called with
    returned,     \* the result object as it was when the action returned it
    result,       \* the result object as it is now (the materializer writes into it)
    error,        \* the rejection value travelling to the catch / the exception thrown
    fired,        \* the body branches the materializer took
    ops,          \* the calls made on the response, in order
    logs,         \* the calls made on params.log.error
    mapped        \* the calls made on params.onError

vars == <<variant, debug, onError, controller, route, phase, now, time, promises,
          settleOrder, invoked, results, invocations, returned, result, error, fired,
          ops, logs, mapped>>

(***************************************************************************)
(* Bounds of the model.                                                    *)
(***************************************************************************)
MaxResolvers == 2   \* resolvers per route
MaxFields == 3      \* fields present in one result object

(***************************************************************************)
(* Values.                                                                 *)
(***************************************************************************)
Absent == "undefined"
Request == "request"
Empty == "<empty>"

Digits == <<"0", "1", "2", "3", "4", "5", "6", "7", "8", "9">>

\* Number.prototype.toString() of a non-negative integer.
RECURSIVE NumberToString(_)
NumberToString(n) ==
    IF n < 10 THEN Digits[n + 1]
    ELSE NumberToString(n \div 10) \o Digits[(n % 10) + 1]

\* The value resolver i resolves to.
Val(i) == "v" \o NumberToString(i)

\* Rejection values and thrown exceptions: {type, message}.
NoError == [type |-> "none", message |-> Absent]
ErrorBoom == [type |-> "Error", message |-> "boom"]
ErrorNoMessage == [type |-> "Error", message |-> ""]
RejectUndefined == [type |-> "undefined", message |-> Absent]
RejectZero == [type |-> "number", message |-> Absent]
TypeError(msg) == [type |-> "TypeError", message |-> msg]

Rejections == {ErrorBoom, ErrorNoMessage, RejectUndefined, RejectZero}

\* JS truthiness of a rejection value: objects are truthy, undefined and 0 are not.
Truthy(e) == e.type \in {"Error", "TypeError"}
\* Reading a property of undefined throws a TypeError.
Nullish(e) == e.type = "undefined"

(***************************************************************************)
(* JSON values: kind, array items, own properties (insertion order).  A   *)
(* property value is the JSON text of the value, or Absent for undefined. *)
(***************************************************************************)
NoJson == [kind |-> "absent", items |-> <<>>, props |-> <<>>]
JsonObject == [kind |-> "object", items |-> <<>>, props |-> <<<<"a", "1">>>>]
JsonWithDebug == [kind |-> "object", items |-> <<>>,
                  props |-> <<<<"debug", "0">>, <<"a", "1">>>>]
JsonArray == [kind |-> "array", items |-> <<"1", "2">>, props |-> <<>>]
JsonCircular == [kind |-> "circular", items |-> <<>>, props |-> <<<<"a", "1">>>>]
JsonPrimitive == [kind |-> "primitive", items |-> <<"5">>, props |-> <<>>]

Quote(s) == "\"" \o s \o "\""
Lit(s) == IF s = Absent THEN Absent ELSE Quote(s)

\* typeof v === "object" (null is left out of the model's values)
TypeofObject(v) == v.kind \in {"object", "array", "circular", "envelope"}

HasProp(props, k) == \E i \in 1..Len(props) : props[i][1] = k

\* obj[k] = v: an existing key keeps its place, a new one goes last.
SetProp(v, k, x) ==
    [v EXCEPT !.props =
        IF HasProp(v.props, k)
        THEN [i \in 1..Len(v.props) |->
                 IF v.props[i][1] = k THEN <<k, x>> ELSE v.props[i]]
        ELSE Append(v.props, <<k, x>>)]

RECURSIVE JoinItems(_)
JoinItems(s) ==
    IF s = <<>> THEN ""
    ELSE IF Len(s) = 1 THEN s[1]
    ELSE s[1] \o "," \o JoinItems(Tail(s))

Defined(props) == SelectSeq(props, LAMBDA p : p[2] # Absent)

RECURSIVE JoinProps(_)
JoinProps(p) ==
    IF p = <<>> THEN ""
    ELSE LET one == Quote(p[1][1]) \o ":" \o p[1][2]
         IN  IF Len(p) = 1 THEN one ELSE one \o "," \o JoinProps(Tail(p))

\* JSON.stringify as response.json uses it: undefined properties are dropped, an
\* array is written as its elements (its other properties are not), a circular
\* structure throws.
Serializable(v) == v.kind # "circular"
\* What of a value reaches the text.
Written(v) ==
    IF v.kind \in {"array", "primitive"}
    THEN [v EXCEPT !.props = <<>>]
    ELSE [v EXCEPT !.props = Defined(v.props)]
Serialize(v) ==
    LET w == Written(v)
    IN  CASE w.kind = "array" -> "[" \o JoinItems(w.items) \o "]"
          [] w.kind = "primitive" -> w.items[1]
          [] w.kind = "envelope" -> "{\"error\":{" \o JoinProps(w.props) \o "}}"
          [] OTHER -> "{" \o JoinProps(w.props) \o "}"

\* { error: { ...props } }
Envelope(props) == [kind |-> "envelope", items |-> <<>>, props |-> props]

(***************************************************************************)
(* The result object of an action (interface Result).  An optional string *)
(* field is Absent when missing; an optional number is a sequence of      *)
(* length 0 or 1; cookies and headers list their entries in key order.    *)
(***************************************************************************)
NoEntries == [present |-> FALSE, entries |-> <<>>]
Entries(e) == [present |-> TRUE, entries |-> e]

ContentTypeHtml == "text/html; charset=UTF-8"

CookieChoices ==
    {NoEntries,
     Entries(<<<<"sid", "s1", "httpOnly">>, <<"lang", "en", "path=/">>>>)}
HeaderChoices ==
    {NoEntries,
     Entries(<<<<"X-Custom", "x">>, <<"content-type", "text/plain">>>>),
     Entries(<<<<"Content-Type", "text/plain">>>>),
     Entries(<<<<"CONTENT-TYPE", "text/plain">>>>),
     Entries(<<<<"X-Custom", "x">>>>)}
JsonChoices == {NoJson, JsonObject, JsonWithDebug, JsonArray, JsonCircular, JsonPrimitive}

AllResults ==
    [json : JsonChoices,
     binary : {Absent, "bytes"},
     cookies : CookieChoices,
     headers : HeaderChoices,
     redirect : {Absent, "/x"},
     status : {<<>>, <<201>>},
     count : {<<>>, <<12>>},
     debug : {Absent, "t"},
     content : {Absent, "<p>hi</p>"},
     text : {Absent, "plain"},
     stream : {Absent, "readable"}]

NoResult ==
    [json |-> NoJson, binary |-> Absent, cookies |-> NoEntries, headers |-> NoEntries,
     redirect |-> Absent, status |-> <<>>, count |-> <<>>, debug |-> Absent,
     content |-> Absent, text |-> Absent, stream |-> Absent]

One(b) == IF b THEN 1 ELSE 0

FieldCount(r) ==
    One(r.json # NoJson) + One(r.binary # Absent) + One(r.cookies.present)
    + One(r.headers.present) + One(r.redirect # Absent) + One(r.status # <<>>)
    + One(r.count # <<>>) + One(r.debug # Absent) + One(r.content # Absent)
    + One(r.text # Absent) + One(r.stream # Absent)

\* The results an action may return: at most MaxFields fields present.
Results == {r \in AllResults : FieldCount(r) <= MaxFields}

(***************************************************************************)
(* The response sink: every call on `response` is one record.             *)
(***************************************************************************)
Op(name, key, val, opt, code, arg) ==
    [op |-> name, key |-> key, val |-> val, opt |-> opt, code |-> code, arg |-> arg]

CookieOp(k, v, o) == Op("cookie", k, v, o, 0, NoJson)
HeaderOp(k, v) == Op("header", k, v, "", 0, NoJson)
RedirectOp(target) == Op("redirect", target, "", "", 0, NoJson)
StatusOp(code) == Op("status", "", "", "", code, NoJson)
ContentTypeOp(t) == Op("contentType", "", t, "", 0, NoJson)
EndOp(data) == Op("end", "", data, "", 0, NoJson)
PipeOp(stream) == Op("pipe", "", stream, "", 0, NoJson)
\* response.json(obj): obj is what was passed, val the body it is written as.
JsonOp(obj) == Op("json", "", Serialize(obj), "", 0, obj)

(***************************************************************************)
(* The response materializer: the second then-callback.                   *)
(***************************************************************************)
StatusOk == 200
StatusBadRequest == 400
StatusInternalError == 500

\* obj[k]: the value of the entry named exactly k, Absent when there is none.
Get(entries, k) ==
    IF \E i \in 1..Len(entries) : entries[i][1] = k
    THEN entries[CHOOSE i \in 1..Len(entries) : entries[i][1] = k][2]
    ELSE Absent

\* if (typeof result.cookies === "object") Object.keys(...).forEach(response.cookie)
CookieOps(r) ==
    IF r.cookies.present
    THEN [i \in 1..Len(r.cookies.entries) |->
             CookieOp(r.cookies.entries[i][1], r.cookies.entries[i][2],
                      r.cookies.entries[i][3])]
    ELSE <<>>

\* if (typeof result.headers === "object") Object.keys(...).forEach(response.header)
HeaderOps(r) ==
    IF r.headers.present
    THEN [i \in 1..Len(r.headers.entries) |->
             HeaderOp(r.headers.entries[i][1], r.headers.entries[i][2])]
    ELSE <<>>

\* A materializer that answers 200 whatever status the result carries.
StatusOpsAlwaysOk(r) == << StatusOp(StatusOk) >>

\* typeof result.status === "number" ? response.status(result.status) : response.status(200)
StatusOps(r) ==
    IF r.status # <<>> THEN <<StatusOp(r.status[1])>> ELSE <<StatusOp(StatusOk)>>

\* X-Total-Count
CountOps(r) ==
    IF r.count # <<>>
    THEN <<HeaderOp("X-Total-Count", NumberToString(r.count[1]))>>
    ELSE <<>>

\* X-Request-Duration, in debug mode
DurationOps(elapsed) ==
    IF debug
    THEN <<HeaderOp("X-Request-Duration", NumberToString(elapsed))>>
    ELSE <<>>

\* The chain with the content branch tested before the text branch.
BodyRuleContentBeforeText(r) ==
    IF r.binary # Absent THEN "binary"
    ELSE IF TypeofObject(r.json) THEN "json"
    ELSE IF r.content # Absent THEN "content"
    ELSE IF r.text # Absent THEN "text"
    ELSE IF r.stream # Absent THEN "stream"
    ELSE "badRequest"

\* The if / else-if chain that selects the body.
BodyRule(r) ==
    IF r.binary # Absent THEN "binary"
    ELSE IF TypeofObject(r.json) THEN "json"
    ELSE IF r.text # Absent THEN "text"
    ELSE IF r.content # Absent THEN "content"
    ELSE IF r.stream # Absent THEN "stream"
    ELSE "badRequest"

\* The merge without the test of params.debug.
MergeDebugAlways(r) ==
    IF r.debug # Absent
    THEN SetProp(r.json, "debug", Lit(r.debug))
    ELSE r.json

\* const json = result.json; if (params.debug && result.debug) json["debug"] = result.debug
\* json is the result's own object: the assignment changes result.json.
MergeDebug(r) ==
    IF debug /\ r.debug # Absent
    THEN SetProp(r.json, "debug", Lit(r.debug))
    ELSE r.json

\* The content branch's test before response.contentType(...): none in variant 1,
\* the two spellings "Content-Type" and "content-type" in variant 2.
KeepsContentType(r) ==
    /\ variant = 2
    /\ r.headers.present
    /\ \/ Get(r.headers.entries, "Content-Type") \notin {Absent, ""}
       \/ Get(r.headers.entries, "content-type") \notin {Absent, ""}

BadRequestBody ==
    Envelope(<<<<"name", Lit("badRequest")>>, <<"message", Lit("Bad Request")>>>>)

\* The body branches with a fallback that leaves the status as it was set.
BodyOpsKeepsStatus(r) ==
    LET rule == BodyRule(r)
    IN  CASE rule = "binary" -> <<EndOp(r.binary)>>
          [] rule = "json" -> <<JsonOp(MergeDebug(r))>>
          [] rule = "text" -> <<EndOp(r.text)>>
          [] rule = "content" ->
                (IF KeepsContentType(r) THEN <<>> ELSE <<ContentTypeOp(ContentTypeHtml)>>)
                \o <<EndOp(r.content)>>
          [] rule = "stream" -> <<PipeOp(r.stream)>>
          [] OTHER -> <<JsonOp(BadRequestBody)>>

BodyOps(r) ==
    LET rule == BodyRule(r)
    IN  CASE rule = "binary" -> <<EndOp(r.binary)>>
          [] rule = "json" -> <<JsonOp(MergeDebug(r))>>
          [] rule = "text" -> <<EndOp(r.text)>>
          [] rule = "content" ->
                (IF KeepsContentType(r) THEN <<>> ELSE <<ContentTypeOp(ContentTypeHtml)>>)
                \o <<EndOp(r.content)>>
          [] rule = "stream" -> <<PipeOp(r.stream)>>
          [] OTHER -> <<StatusOp(StatusBadRequest), JsonOp(BadRequestBody)>>

\* The head with the redirect tested after the status and the diagnostic headers.
HeadOpsStatusBeforeRedirect(r, elapsed) ==
    CookieOps(r) \o HeaderOps(r) \o StatusOps(r) \o CountOps(r) \o DurationOps(elapsed)
    \o (IF r.redirect # Absent THEN <<RedirectOp(r.redirect)>> ELSE <<>>)

\* A materializer that writes the result's headers before its cookies.
HeadOpsHeadersFirst(r, elapsed) ==
    IF r.redirect # Absent
    THEN HeaderOps(r) \o CookieOps(r) \o << RedirectOp(r.redirect) >>
    ELSE HeaderOps(r) \o CookieOps(r) \o StatusOps(r) \o CountOps(r) \o DurationOps(elapsed)

\* What the materializer does before the body: everything, or up to the redirect.
HeadOps(r, elapsed) ==
    IF r.redirect # Absent
    THEN CookieOps(r) \o HeaderOps(r) \o <<RedirectOp(r.redirect)>>
    ELSE CookieOps(r) \o HeaderOps(r) \o StatusOps(r) \o CountOps(r) \o DurationOps(elapsed)

(***************************************************************************)
(* The error interceptor: the catch callback.                              *)
(***************************************************************************)
LogTag == "[path-router-express]"

\* The application's mapper (params.onError): one that gives a status to some
\* errors and none to the others, and passes the message on.
OnErrorResult(e) ==
    IF e.message = "boom"
    THEN [status |-> <<404>>, name |-> "notFound", message |-> Absent, details |-> Absent]
    ELSE [status |-> <<>>, name |-> "appError", message |-> e.message,
          details |-> "{\"code\":7}"]

\* The arguments onError is called with: (error) in variant 1, (error, request) in 2.
OnErrorArgs(e) ==
    IF variant = 1 THEN <<e, NoError>> ELSE <<e, [type |-> Request, message |-> Absent]>>

MappedBody(d) ==
    Envelope(<<<<"name", Lit(d.name)>>, <<"message", Lit(d.message)>>,
               <<"details", d.details>>>>)

\* error.message || "Internal Error"
MessageOrDefault(e) == IF e.message \in {Absent, ""} THEN "Internal Error" ELSE e.message

InternalErrorBody(e) ==
    Envelope(<<<<"name", Lit("internalError")>>, <<"message", Lit(MessageOrDefault(e))>>>>)

\* if (error && typeof params.onError === "function")
UsesMapper(e) == Truthy(e) /\ onError # Absent

\* The calls the catch callback makes on the response.
InterceptOps(e) ==
    IF UsesMapper(e)
    THEN LET d == OnErrorResult(e)
         IN  (IF d.status # <<>> /\ d.status[1] # 0 THEN <<StatusOp(d.status[1])>> ELSE <<>>)
             \o <<JsonOp(MappedBody(d))>>
    ELSE <<StatusOp(StatusInternalError)>>
         \o (IF Nullish(e) THEN <<>> ELSE <<JsonOp(InternalErrorBody(e))>>)

(***************************************************************************)
(* The resolver chain: the listener's synchronous part and Promise.all.   *)
(***************************************************************************)
Unlaunched == [state |-> "unlaunched", value |-> Absent, reason |-> NoError]
Pending == [state |-> "pending", value |-> Absent, reason |-> NoError]
Fulfilled(v) == [state |-> "fulfilled", value |-> v, reason |-> NoError]
Rejected(e) == [state |-> "rejected", value |-> Absent, reason |-> e]

\* What a call of a resolver does: return a value, return a promise, or throw.
Modes == {"value", "promise", "throw"}

\* The first resolver that throws while being called, 0 when none does.
FirstThrow(modes) ==
    IF \E i \in DOMAIN modes : modes[i] = "throw"
    THEN CHOOSE i \in DOMAIN modes :
             /\ modes[i] = "throw"
             /\ \A j \in DOMAIN modes : modes[j] = "throw" => i <= j
    ELSE 0

\* A join that files the values in the order they arrive.
StoreResultOnArrival(values, i, v) ==
    LET free == {j \in 2..Len(values) : values[j] = Empty}
    IN  IF free = {} THEN values
        ELSE [values EXCEPT ![CHOOSE j \in free : \A k \in free : j <= k] = v]

\* Promise.all: the value of promise i goes to slot i + 1 of the values array
\* (slot 1 holds the request), whenever it arrives.
StoreResult(values, i, v) == [values EXCEPT ![i + 1] = v]

\* A join that only waits for the absence of a rejection.
NoneRejected == \A i \in DOMAIN promises : promises[i].state # "rejected"

AllFulfilled == \A i \in DOMAIN promises : promises[i].state = "fulfilled"

\* The methods the controller object has.
ControllerMethods == {"list"}

DispatchConfigs ==
    {[action |-> "list", callback |-> Absent, controller |-> "controller"],
     [action |-> Absent, callback |-> "fn", controller |-> Absent],
     [action |-> "nope", callback |-> "fn", controller |-> "controller"],
     [action |-> "list", callback |-> Absent, controller |-> Absent],
     [action |-> Absent, callback |-> Absent, controller |-> "controller"]}

Init ==
    /\ (variant = 2 \/ variant = 1)
    /\ debug \in BOOLEAN
    /\ onError \in {Absent, "mapper"}
    /\ \E d \in DispatchConfigs, present \in BOOLEAN, n \in 0..MaxResolvers :
          /\ present \/ n = 0
          /\ controller = d.controller
          /\ route = [resolves |-> present, n |-> n,
                      action |-> d.action, callback |-> d.callback]
          /\ promises = [i \in 1..n |-> Unlaunched]
          /\ invoked = [i \in 1..n |-> 0]
    /\ phase = "Matched"
    /\ now = 0
    /\ time = 0
    /\ results = <<>>
    /\ invocations = <<>>
    /\ returned = NoResult
    /\ result = NoResult
    /\ settleOrder = <<>>
    /\ error = NoError
    /\ fired = <<>>
    /\ ops = <<>>
    /\ logs = <<>>
    /\ mapped = <<>>

\* The listener: const time = Date.now(); every resolver is called in turn and its
\* return value pushed; Promise.all(promises).then(...).then(...).catch(...).
\* An exception of a resolver call (or of undefined.forEach in variant 1) leaves
\* the listener before the chain exists.
Listener ==
    /\ phase = "Matched"
    /\ time' = now
    /\ now' = now + 1
    /\ IF ~route.resolves /\ variant = 1
       THEN /\ phase' = "Escaped"
            /\ error' = TypeError("Cannot read properties of undefined (reading 'forEach')")
            /\ UNCHANGED <<promises, invoked, results>>
       ELSE \E modes \in [1..route.n -> Modes] :
              LET k == FirstThrow(modes)
              IN  IF k # 0
                  THEN /\ \E e \in Rejections : error' = e
                       /\ phase' = "Escaped"
                       /\ invoked' = [i \in 1..route.n |-> IF i <= k THEN 1 ELSE 0]
                       /\ promises' = [i \in 1..route.n |->
                              IF i >= k THEN Unlaunched
                              ELSE IF modes[i] = "value" THEN Fulfilled(Val(i))
                              ELSE Pending]
                       /\ UNCHANGED results
                  ELSE /\ phase' = "Resolving"
                       /\ invoked' = [i \in 1..route.n |-> invoked[i] + 1]
                       /\ promises' = [i \in 1..route.n |->
                              IF modes[i] = "value" THEN Fulfilled(Val(i)) ELSE Pending]
                       /\ results' = <<Request>> \o [i \in 1..route.n |->
                              IF modes[i] = "value" THEN Val(i) ELSE Empty]
                       /\ UNCHANGED error
    /\ UNCHANGED <<variant, debug, onError, controller, route, invocations, result,
                   fired, ops, logs, mapped, settleOrder, returned>>

\* A resolver's promise is fulfilled.
ResolverFulfils(i) ==
    /\ promises[i].state = "pending"
    /\ promises' = [promises EXCEPT ![i] = Fulfilled(Val(i))]
    /\ settleOrder' = Append(settleOrder, i)
    /\ results' = IF phase = "Escaped" THEN results ELSE StoreResult(results, i, Val(i))
    /\ now' = now + 1
    /\ UNCHANGED <<variant, debug, onError, controller, route, phase, time, invoked,
                   invocations, result, error, fired, ops, logs, mapped, returned>>

\* A join whose rejection value is replaced by every later rejection.
ResolverRejectsLastWins(i) ==
    /\ promises[i].state = "pending"
    /\ \E e \in Rejections :
          /\ promises' = [promises EXCEPT ![i] = Rejected(e)]
          /\ settleOrder' = Append(settleOrder, i)
          /\ IF phase \in {"Resolving", "ErrorHandling"}
             THEN phase' = "ErrorHandling" /\ error' = e
             ELSE UNCHANGED <<phase, error>>
    /\ now' = now + 1
    /\ UNCHANGED <<variant, debug, onError, controller, route, time, invoked, results,
                   invocations, result, fired, ops, logs, mapped, returned>>

\* A resolver's promise is rejected: Promise.all rejects with the first rejection,
\* without waiting for the promises still pending.
ResolverRejects(i) ==
    /\ promises[i].state = "pending"
    /\ \E e \in Rejections :
          /\ promises' = [promises EXCEPT ![i] = Rejected(e)]
          /\ settleOrder' = Append(settleOrder, i)
          /\ IF phase = "Resolving"
             THEN phase' = "ErrorHandling" /\ error' = e
             ELSE UNCHANGED <<phase, error>>
    /\ now' = now + 1
    /\ UNCHANGED <<variant, debug, onError, controller, route, time, invoked, results,
                   invocations, result, fired, ops, logs, mapped, returned>>

(***************************************************************************)
(* Dispatch: the first then-callback.                                      *)
(***************************************************************************)
\* controller[route.action].apply(controller, results) / route.callback(...results)
\* is a call of something callable.
Callable ==
    IF route.action # Absent
    THEN controller # Absent /\ route.action \in ControllerMethods
    ELSE route.callback # Absent

Dispatch ==
    /\ phase = "Resolving"
    /\ AllFulfilled
    /\ IF Callable
       THEN /\ invocations' = Append(invocations, results)
            /\ phase' = "Dispatching"
            /\ UNCHANGED error
       ELSE /\ phase' = "ErrorHandling"
            /\ error' = TypeError("not a function")
            /\ UNCHANGED invocations
    /\ now' = now + 1
    /\ UNCHANGED <<variant, debug, onError, controller, route, time, promises, invoked,
                   results, result, fired, ops, logs, mapped, settleOrder, returned>>

\* The action's promise is fulfilled with a result object.
ActionReturns ==
    /\ phase = "Dispatching"
    /\ \E r \in Results : result' = r /\ returned' = r
    /\ phase' = "Materializing"
    /\ now' = now + 1
    /\ UNCHANGED <<variant, debug, onError, controller, route, time, promises, invoked,
                   results, invocations, error, fired, ops, logs, mapped, settleOrder>>

\* The action throws, or its promise is rejected.
ActionFails ==
    /\ phase = "Dispatching"
    /\ \E e \in Rejections : error' = e
    /\ phase' = "ErrorHandling"
    /\ now' = now + 1
    /\ UNCHANGED <<variant, debug, onError, controller, route, time, promises, invoked,
                   results, invocations, result, fired, ops, logs, mapped, settleOrder, returned>>

(***************************************************************************)
(* Materialization, the stream's end, and the catch.                       *)
(***************************************************************************)
Materialize ==
    /\ phase = "Materializing"
    /\ LET r == result
           rule == BodyRule(r)
           head == HeadOps(r, now - time)
       IN  IF r.redirect # Absent
           THEN /\ ops' = ops \o head
                /\ phase' = "Redirected"
                /\ UNCHANGED <<result, error, fired>>
           ELSE /\ fired' = Append(fired, rule)
                /\ result' = IF rule = "json" THEN [r EXCEPT !.json = MergeDebug(r)] ELSE r
                /\ IF rule = "json" /\ ~Serializable(r.json)
                   THEN /\ ops' = ops \o head
                        /\ phase' = "ErrorHandling"
                        /\ error' = TypeError("Converting circular structure to JSON")
                   ELSE /\ ops' = ops \o head \o BodyOps(r)
                        /\ phase' = IF rule = "stream" THEN "Streaming" ELSE "Responded"
                        /\ UNCHANGED error
    /\ now' = now + 1
    /\ UNCHANGED <<variant, debug, onError, controller, route, time, promises, invoked,
                   results, invocations, logs, mapped, settleOrder, returned>>

\* result.stream.on("end", () => response.end())
StreamEnds ==
    /\ phase = "Streaming"
    /\ ops' = Append(ops, EndOp(""))
    /\ phase' = "Responded"
    /\ now' = now + 1
    /\ UNCHANGED <<variant, debug, onError, controller, route, time, promises, invoked,
                   results, invocations, result, error, fired, logs, mapped, settleOrder, returned>>

\* The catch callback.  Without a usable mapper it logs, sets 500 and reads
\* error.message, which throws when the rejection value is undefined: the promise
\* the catch returned is then rejected and nothing handles it.
Intercept ==
    /\ phase = "ErrorHandling"
    /\ ops' = ops \o InterceptOps(error)
    /\ IF UsesMapper(error)
       THEN /\ mapped' = Append(mapped, OnErrorArgs(error))
            /\ phase' = "Responded"
            /\ UNCHANGED logs
       ELSE /\ logs' = Append(logs, <<LogTag, error>>)
            /\ phase' = IF Nullish(error) THEN "Unhandled" ELSE "Responded"
            /\ UNCHANGED mapped
    /\ now' = now + 1
    /\ UNCHANGED <<variant, debug, onError, controller, route, time, promises, invoked,
                   results, invocations, result, error, fired, settleOrder, returned>>

Next ==
    \/ Listener
    \/ \E i \in DOMAIN promises : ResolverFulfils(i)
    \/ \E i \in DOMAIN promises : ResolverRejects(i)
    \/ Dispatch
    \/ ActionReturns
    \/ ActionFails
    \/ Materialize
    \/ StreamEnds
    \/ Intercept

Spec == Init /\ [][Next]_vars

(***************************************************************************)
(* Properties.                                                             *)
(***************************************************************************)
Last(s) == s[Len(s)]
OpsNamed(names) == SelectSeq(ops, LAMBDA o : o.op \in names)
\* The calls that write a body.
BodyWrites == OpsNamed({"json", "end", "pipe"})
\* The status the response ends up with: the one set last.
FinalStatus == Last(OpsNamed({"status"})).code
\* The catch callback has run.
Intercepted == logs # <<>> \/ mapped # <<>>
\* The action was called and has returned a result (not failed).
Returned ==
    /\ invocations # <<>>
    /\ phase # "Dispatching"
    /\ error.type \in {"none", "TypeError"}
\* The materializer has run on the returned result.
Materialized == Returned /\ phase # "Materializing"

\* C1: whenever the action or callback is called, its arguments are the request
\* followed by the value of every resolver in declaration order, whatever the
\* order in which the resolvers' promises settled.
C1_ArgumentsInDeclarationOrder ==
    \A k \in 1..Len(invocations) :
        /\ Len(invocations[k]) = route.n + 1
        /\ invocations[k][1] = Request
        /\ \A i \in 1..route.n :
              /\ promises[i].state = "fulfilled"
              /\ invocations[k][i + 1] = promises[i].value

\* The action was called after the second resolver settled before the first.
C1_Witness ==
    /\ Len(invocations) = 1
    /\ settleOrder = <<2, 1>>

\* C2: once the catch callback has run, it has not thrown and exactly one call
\* has written a body, whatever the rejection value and with or without onError.
C2_InterceptorNeverFailsOneWrite ==
    Intercepted => (phase # "Unhandled" /\ Len(BodyWrites) = 1)

\* C3: a request whose promise chain was built and for which nothing is left to
\* run (every resolver and the action have completed, every callback has run)
\* has reached Responded or Redirected.
C3_ChainEndsWithResponse ==
    (phase \notin {"Matched", "Escaped"} /\ ~ENABLED Next)
        => phase \in {"Responded", "Redirected"}

\* C4: when a resolver or the action has failed with an Error E, no onError is
\* configured and the failure has been dealt with, the status is 500, the body is
\* {"error":{"name":"internalError","message":E.message or "Internal Error"}}
\* with no details, and E was logged exactly once.
C4_UnmappedFailureIs500 ==
    (onError = Absent /\ error.type = "Error" /\ phase # "ErrorHandling") =>
        /\ OpsNamed({"status"}) # <<>>
        /\ FinalStatus = 500
        /\ Len(BodyWrites) = 1
        /\ Last(ops).op = "json"
        /\ Last(ops).val =
              "{\"error\":{\"name\":\"internalError\",\"message\":\""
              \o (IF error.message = "" THEN "Internal Error" ELSE error.message)
              \o "\"}}"
        /\ logs = <<<<LogTag, error>>>>

\* C5: when the pipeline has failed with onError configured and the catch
\* callback has run, the mapper was used: nothing was logged, the body is
\* {error: {name, message, details}} of the mapped error, the status is the
\* mapped one when it has one, and no status 500 was set.
C5_MappedFailureUsesMapper ==
    (onError # Absent /\ error # NoError /\ phase \in {"Responded", "Unhandled"}) =>
        LET d == OnErrorResult(error)
        IN  /\ logs = <<>>
            /\ Len(mapped) = 1
            /\ Last(ops).op = "json"
            /\ Last(ops).arg.props =
                  <<<<"name", Lit(d.name)>>, <<"message", Lit(d.message)>>,
                    <<"details", d.details>>>>
            /\ \A i \in 1..Len(ops) : ops[i].op = "status" => ops[i].code # 500
            /\ d.status # <<>> => FinalStatus = d.status[1]

\* The first body field present in the order binary, json, text, content, stream.
FirstPresent(r) ==
    CASE r.binary # Absent -> "binary"
      [] r.binary = Absent /\ r.json.kind \in {"object", "array", "circular"} -> "json"
      [] r.binary = Absent /\ r.json.kind \in {"absent", "primitive"}
         /\ r.text # Absent -> "text"
      [] r.binary = Absent /\ r.json.kind \in {"absent", "primitive"}
         /\ r.text = Absent /\ r.content # Absent -> "content"
      [] r.binary = Absent /\ r.json.kind \in {"absent", "primitive"}
         /\ r.text = Absent /\ r.content = Absent /\ r.stream # Absent -> "stream"
      [] OTHER -> "badRequest"

\* The payload of a body rule, as the body write carries it.
PayloadOf(rule, r) ==
    CASE rule = "binary" -> r.binary
      [] rule = "text" -> r.text
      [] rule = "content" -> r.content
      [] rule = "stream" -> r.stream
      [] OTHER -> ""

\* C6: a non-redirect result that was materialized took exactly one body branch,
\* the first present in the order binary, json, text, content, stream, fallback,
\* and the body written is that field's alone.
C6_OneBodyRuleByPrecedence ==
    (Materialized /\ returned.redirect = Absent) =>
        /\ Len(fired) = 1
        /\ fired[1] = FirstPresent(returned)
        /\ error = NoError =>
              /\ Len(BodyWrites) =
                    IF fired[1] = "stream" /\ phase = "Responded" THEN 2 ELSE 1
              /\ fired[1] \in {"binary", "text", "content", "stream"} =>
                    BodyWrites[1].val = PayloadOf(fired[1], returned)
              /\ fired[1] \in {"json", "badRequest"} => BodyWrites[1].op = "json"
              /\ fired[1] \in {"binary", "text", "content"} => BodyWrites[1].op = "end"
              /\ fired[1] = "stream" => BodyWrites[1].op = "pipe"

\* A result with text, content and a stream was written.
C6_Witness ==
    /\ phase = "Responded"
    /\ returned.text # Absent /\ returned.content # Absent /\ returned.stream # Absent
    /\ fired = <<"text">>

\* C7: a returned result with no redirect and no recognized body field ends with
\* status 400 and the body {"error":{"name":"badRequest","message":"Bad Request"}},
\* whatever its status field.
C7_NoBodyFieldIsBadRequest ==
    (Materialized /\ returned.redirect = Absent
     /\ FirstPresent(returned) = "badRequest") =>
        /\ phase = "Responded"
        /\ FinalStatus = 400
        /\ Len(BodyWrites) = 1
        /\ Last(ops).op = "json"
        /\ Last(ops).val = "{\"error\":{\"name\":\"badRequest\",\"message\":\"Bad Request\"}}"

\* A result with a status of its own and no body field was answered.
C7_Witness ==
    /\ phase = "Responded"
    /\ fired = <<"badRequest">>
    /\ returned.status = <<201>>

\* C8: for a result with a redirect target the calls on the response are its
\* cookies, then its headers, then one redirect, and nothing else: no status, no
\* X-Total-Count, no X-Request-Duration, no content type, no body.
C8_RedirectOnly ==
    (Materialized /\ returned.redirect # Absent) =>
        LET c == returned.cookies.entries
            h == returned.headers.entries
        IN  /\ phase = "Redirected"
            /\ fired = <<>>
            /\ Len(ops) = Len(c) + Len(h) + 1
            /\ \A i \in 1..Len(c) :
                  /\ ops[i].op = "cookie"
                  /\ <<ops[i].key, ops[i].val, ops[i].opt>> = c[i]
            /\ \A i \in 1..Len(h) :
                  /\ ops[Len(c) + i].op = "header"
                  /\ <<ops[Len(c) + i].key, ops[Len(c) + i].val>> = h[i]
            /\ Last(ops).op = "redirect"
            /\ Last(ops).key = returned.redirect
            /\ \A i \in 1..Len(ops) :
                  /\ ops[i].op \notin {"status", "contentType", "json", "end", "pipe"}
                  /\ ops[i].key \notin {"X-Total-Count", "X-Request-Duration"}

\* A redirect with cookies and headers was issued.
C8_Witness ==
    /\ phase = "Redirected"
    /\ returned.cookies.present
    /\ returned.headers.present

\* The json the action returned, with the debug key the claim expects in the body.
ExpectedJson ==
    IF debug /\ returned.debug # Absent
    THEN SetProp(returned.json, "debug", Quote(returned.debug))
    ELSE returned.json

\* The body the json branch wrote: what the text written stands for.
JsonBodyWritten == Written(Last(ops).arg)

\* C9 as claimed: for a result whose json is an object (arrays included), the
\* written body is json with a debug key holding the debug payload when debug
\* mode is on and the result has a payload, and json itself otherwise.
C9_JsonBodyCarriesDebug ==
    (fired = <<"json">> /\ error = NoError) =>
        JsonBodyWritten = ExpectedJson

\* C9 as amended: that holds when json is a plain object; when json is an array
\* the written body is the array's elements alone, in debug mode too.
C9_PlainObjectBodyCarriesDebug ==
    (fired = <<"json">> /\ error = NoError) =>
        /\ phase = "Responded"
        /\ Last(ops).op = "json"
        /\ returned.json.kind = "object" =>
              /\ JsonBodyWritten = ExpectedJson
              /\ Last(ops).val = "{" \o JoinProps(ExpectedJson.props) \o "}"
        /\ returned.json.kind = "array" =>
              /\ JsonBodyWritten = returned.json
              /\ Last(ops).val = "[" \o JoinItems(returned.json.items) \o "]"

\* {a: 1} with the payload "t" was written in debug mode as {"a":1,"debug":"t"}.
C9_Witness ==
    /\ phase = "Responded"
    /\ fired = <<"json">>
    /\ debug
    /\ returned.json = JsonObject
    /\ returned.debug = "t"
    /\ Last(ops).val = "{\"a\":1,\"debug\":\"t\"}"

\* Lower case of the header names in use.
LowerCase(name) ==
    CASE name \in {"Content-Type", "CONTENT-TYPE", "content-type"} -> "content-type"
      [] name = "X-Custom" -> "x-custom"
      [] OTHER -> name

\* The result's headers hold a content-type header, in any letter case.
HasContentTypeHeader(r) ==
    /\ r.headers.present
    /\ \E i \in 1..Len(r.headers.entries) :
          LowerCase(r.headers.entries[i][1]) = "content-type"

\* C10: (in the later implementation, lines 294-409) when the body is taken from
\* content, the content type is set to "text/html; charset=UTF-8" if and only if
\* the result's headers hold no content-type header in any letter case.
C10_HtmlTypeOnlyWithoutHeader ==
    (variant = 2 /\ fired = <<"content">>) =>
        ((\E i \in 1..Len(ops) : ops[i].op = "contentType" /\ ops[i].val = ContentTypeHtml)
            <=> ~HasContentTypeHeader(returned))

\* The resolvers whose promise was rejected, in the order they were rejected.
RejectedInOrder == SelectSeq(settleOrder, LAMBDA i : promises[i].state = "rejected")
\* The value the catch callback was called with.
Handed == IF logs # <<>> THEN logs[1][2] ELSE mapped[1][1]

C12_EveryResolverInvokedOnce ==
    (phase # "Matched" /\ route.resolves) =>
        /\ \A i \in DOMAIN invoked : invoked[i] = 1
        /\ Len(invocations) <= 1

\* The resolvers whose call returned a promise that is still unsettled.
StillPending == {i \in DOMAIN promises : promises[i].state = "pending"}

\* C13 (as stated): neither the action is called nor anything written on the
\* response while a resolver that was called is still unsettled.
C13_NothingBeforeAllSettled ==
    (invocations # <<>> \/ ops # <<>>) => StillPending = {}

\* C13 (amended): the action or callback is called only when every resolver has
\* fulfilled; the catch callback answers only after some resolver was rejected or
\* after every resolver fulfilled, and it does not wait for the resolvers that
\* are still unsettled when the first rejection arrives.
C13_DispatchWaitsForAllErrorDoesNot ==
    /\ invocations # <<>> => AllFulfilled
    /\ phase \in {"Dispatching", "Materializing", "Streaming", "Redirected"} => AllFulfilled
    /\ (Intercepted \/ phase = "ErrorHandling") => (RejectedInOrder # <<>> \/ AllFulfilled)

\* The error response was written while another resolver was still unsettled.
C13_Witness ==
    /\ Intercepted
    /\ BodyWrites # <<>>
    /\ StillPending # {}

\* C14: a resolver that fails while it is being called gets the response that a
\* resolver rejecting its promise with the same value gets.
C14_SyncFailureHandledLikeAsync ==
    (phase = "Escaped" /\ route.resolves) =>
        /\ Intercepted
        /\ ops = InterceptOps(error)

\* The chain failed at dispatch: no callable was found, or the action or callback
\* that was called failed.
DispatchFailed ==
    /\ phase \notin {"Matched", "Escaped", "Resolving"}
    /\ AllFulfilled
    /\ \/ invocations = <<>> /\ error # NoError
       \/ invocations # <<>> /\ error.type \in {"Error", "undefined", "number"}

\* C15: a failure at dispatch reaches the catch callback, and the catch callback
\* answers it with exactly one body of an error response.
C15_DispatchFailureAnswered ==
    (DispatchFailed /\ phase # "ErrorHandling") =>
        /\ Intercepted
        /\ phase = "Responded"
        /\ Len(BodyWrites) = 1

\* C16: a route whose resolver list is empty or absent, with a callable to
\* dispatch to, has its action or callback called with the request alone.
C16_NoResolversProcessedNormally ==
    ((~route.resolves \/ route.n = 0) /\ Callable /\ phase # "Matched") =>
        /\ phase # "Escaped"
        /\ phase # "Resolving" => invocations = << <<Request>> >>

\* The result carries a body field the materializer recognizes and no redirect.
HasRecognizedBody ==
    /\ Materialized
    /\ returned.redirect = Absent
    /\ FirstPresent(returned) # "badRequest"
\* The status the result asks for: its own when it is a number, 200 otherwise.
RequestedStatus == IF returned.status # <<>> THEN returned.status[1] ELSE StatusOk

C18_MapperAlwaysCalledWithRequest ==
    (onError # Absent /\ error # NoError /\ phase \in {"Responded", "Unhandled"}) =>
        /\ mapped = << <<error, [type |-> Request, message |-> Absent]>> >>
        /\ logs = <<>>

\* C19: the materializer leaves the result it was given as the action returned
\* it, json payload included.
C19_ResultUntouched ==
    Materialized => result = returned

\* The place of a call on the response in the order cookies, headers, status,
\* X-Total-Count, X-Request-Duration, content type, body or redirect.
Rank(o) ==
    CASE o.op = "cookie" -> 1
      [] o.op = "header" /\ o.key \notin {"X-Total-Count", "X-Request-Duration"} -> 2
      [] o.op = "status" -> 3
      [] o.op = "header" /\ o.key = "X-Total-Count" -> 4
      [] o.op = "header" /\ o.key = "X-Request-Duration" -> 5
      [] o.op = "contentType" -> 6
      [] OTHER -> 7
\* The calls after which nothing but the end of a piped stream may follow.
Terminal(o) == o.op \in {"json", "end", "pipe", "redirect"}
\* No cookie, header, content type or status is set after the body or the redirect.
NothingAfterBody ==
    \A i, j \in DOMAIN ops :
        (i < j /\ Terminal(ops[i])) =>
            /\ ops[i].op = "pipe"
            /\ ops[j].op = "end"
            /\ j = i + 1
            /\ j = Len(ops)
\* A status set again right before a json body, or as the last call so far.
StatusOverride(j) ==
    /\ ops[j].op = "status"
    /\ j = Len(ops) \/ ops[j + 1].op = "json"

\* C20 (as stated): the calls on the response come in the order cookies, headers,
\* status, X-Total-Count, X-Request-Duration, body, and nothing is set after the
\* body or the redirect.
C20_StrictOrder ==
    /\ NothingAfterBody
    /\ \A i, j \in DOMAIN ops : i < j => Rank(ops[i]) <= Rank(ops[j])

\* C20 (amended): the same order, except that the bad-request fallback and the
\* catch callback may set the status once more right before their json body.
C20_OrderUpToStatusOverride ==
    /\ NothingAfterBody
    /\ \A i, j \in DOMAIN ops :
          i < j => (Rank(ops[i]) <= Rank(ops[j]) \/ StatusOverride(j))
    /\ Len(SelectSeq(ops, Terminal)) <= 2

\* The bad-request fallback answered a result with a cookie and a count: the
\* status was set again after the X-Total-Count header and before the body.
C20_Witness ==
    /\ phase = "Responded"
    /\ fired = <<"badRequest">>
    /\ returned.cookies.present /\ returned.cookies.entries # <<>>
    /\ returned.count # <<>>
    /\ Len(OpsNamed({"status"})) = 2
    /\ Last(ops).op = "json"

====
